---- MODULE Spec2Model ----
(***************************************************************************)
(* gym-electric-motor: the orchestration environment                       *)
(* (core/electric_motor_environment.py) and the SCML physical-system       *)
(* engine (physical_systems/scml_system.py).                               *)
(*                                                                         *)
(* Every public method is one action.  A method that raises keeps the      *)
(* assignments it made before the raise; the outcome of the last call of   *)
(* the engine is kept in engCall, of the environment in envCall.           *)
(* Numbers that numpy keeps as float64 are modelled as binary floating     *)
(* point numbers with a MantBits-bit mantissa, rounded to nearest-even.    *)
(***************************************************************************)
EXTENDS Integers, Sequences, FiniteSets, TLC

VARIABLES
    ps,        \* the SCMLSystem object: its attributes, solver and components
    engCall,   \* outcome of the last call made on the SCMLSystem
    kind,      \* class of the environment's physical system: "SCML" or "Generic"
    done,      \* ElectricMotorEnvironment._done
    gk,        \* cycle counter k of a physical system that is not an SCMLSystem
    envCall,   \* outcome of the last call made on the environment (pending: a
               \* setter has been used and no reset() has returned since)
    ready,     \* history: a reset() has returned and no step() has assigned done = True since
    seedSt,    \* the seed sequences two environments and their engines hold
    conv,      \* a FiniteOneQuadrantConverter and the outcome of its last call
    motor      \* an ExternallyExcitedSynchronousMotor and the outcome of its last call

\* the variables the seeding, the converter and the motor alone are about
aux == <<seedSt, conv, motor>>

vars == <<ps, engCall, kind, done, gk, envCall, ready, seedSt, conv, motor>>

\* ------------------------------------------------------------------ bounds
MantBits == 4          \* mantissa width of the modelled floating point format
MaxSteps == 2          \* control cycles simulated between two resets
TauTicks == 2          \* the control interval tau, in time ticks
NumCallbacks == 2      \* callbacks registered with the environment

\* ------------------------------------------------------- Python's None
None == <<>>
Some(v) == <<v>>

\* ------------------------------------------------------------ float64
RECURSIVE Pow2(_)
Pow2(n) == IF n <= 0 THEN 1 ELSE 2 * Pow2(n - 1)

Abs(v) == IF v < 0 THEN -v ELSE v

Sgn(v) == IF v < 0 THEN -1 ELSE 1

\* n / d (n >= 0, d > 0) rounded to the nearest integer, ties to even
RoundHalfEven(n, d) ==
    LET q == n \div d
        r == n % d
    IN  IF 2 * r > d \/ (2 * r = d /\ q % 2 = 1) THEN q + 1 ELSE q

\* the float nearest to (n / d) * 2^e, for n >= 0 and d > 0
RECURSIVE Normalize(_, _, _)
Normalize(n, d, e) ==
    IF n = 0 THEN [m |-> 0, e |-> 0]
    ELSE IF n >= d * Pow2(MantBits) THEN Normalize(n, 2 * d, e + 1)
    ELSE IF n < d * Pow2(MantBits - 1) THEN Normalize(2 * n, d, e - 1)
    ELSE LET m == RoundHalfEven(n, d)
         IN  IF m = Pow2(MantBits) THEN [m |-> Pow2(MantBits - 1), e |-> e + 1]
             ELSE [m |-> m, e |-> e]

Neg(a) == [m |-> -a.m, e |-> a.e]

\* conversion of a Python number to float (np.array / np.concatenate)
Float(v) == IF v < 0 THEN Neg(Normalize(-v, 1, 0)) ELSE Normalize(v, 1, 0)

\* a / b for floats, b nonzero
FDiv(a, b) ==
    LET q == Normalize(Abs(a.m), Abs(b.m), a.e - b.e)
    IN  IF Sgn(a.m) * Sgn(b.m) < 0 THEN Neg(q) ELSE q

\* a * b for floats
FMul(a, b) ==
    LET q == Normalize(Abs(a.m) * Abs(b.m), 1, a.e + b.e)
    IN  IF Sgn(a.m) * Sgn(b.m) < 0 THEN Neg(q) ELSE q

MinOf(x, y) == IF x < y THEN x ELSE y

\* |a - b| <= 3 * 2^-MantBits * |b|: two roundings apart
FClose(a, b) ==
    LET e0 == MinOf(a.e, b.e)
        A  == a.m * Pow2(a.e - e0)
        B  == b.m * Pow2(b.e - e0)
    IN  Abs(A - B) * Pow2(MantBits) <= 3 * Abs(B)

\* elementwise operations of numpy arrays
ArrDiv(x, y) == [i \in 1..Len(x) |-> FDiv(x[i], y[i])]

ArrFloat(x) == [i \in 1..Len(x) |-> Float(x[i])]

Zeros(n) == [i \in 1..n |-> 0]

Slice(x, lo, hi) == SubSeq(x, lo + 1, hi)

\* ================================================================ SCMLSystem
\* scml_system.py

\* the four observed components, in the order of self._scml_components
scml_components == <<"load", "motor", "converter", "supply">>

\* attributes an SCMLSystem instance holds once __init__ has returned
InstanceAttributes ==
    { "_converter", "_electric_motor", "_mechanical_load", "_supply", "_ode_solver",
      "_scml_components", "_tau", "_random_components", "_motor_state", "_load_state",
      "_t", "_observation_space", "_state_names", "_load_ode_slice", "_motor_ode_slice",
      "_limits", "_nominal_state", "_initial_ode_value", "system_observation",
      "_system_derivative", "_system_jacobian" }

\* Python's attribute lookup on the instance: an attribute no statement has
\* assigned raises AttributeError
HasAttribute(name) == name \in InstanceAttributes

\* the object before (or after a failed) construction
NoSystem ==
    [ built |-> FALSE, cfg |-> None, limits |-> None, t |-> 0, k |-> 0,
      motor_state |-> None, load_state |-> None, system_observation |-> <<>>,
      initial_ode_value |-> <<>>, solver_t |-> 0, solver_y |-> None, jac |-> FALSE,
      system_derivative |-> <<>>,
      system_jacobian |-> [kind |-> "none", value |-> <<>>], solver_jac |-> "none",
      components |-> [equation_set |-> FALSE, j_rotor_set |-> FALSE],
      handed_out |-> None ]

\* no component was asked for its observation
NoObs == [comp \in {"load", "motor", "converter", "supply"} |-> <<>>]

NoCall == [ op |-> "none", outcome |-> "none", err |-> "", ret |-> <<>>, obs |-> <<>>,
            arg |-> <<>>, jarg |-> <<>>, warned |-> FALSE, trace |-> <<>>,
            earlier |-> <<>> ]

\* the shape assertions without the one on the torque and speed shapes
ShapeAssertsWithoutLoad(c) ==
    /\ c.shape.supply = c.shape.converter_supply
    /\ c.shape.converter_output = c.shape.motor_input

\* the three shape assertions of __init__
ShapeAsserts(c) ==
    /\ c.shape.supply = c.shape.converter_supply
    /\ c.shape.converter_output = c.shape.motor_input
    /\ c.shape.motor_torque = c.shape.load_speed

\* [x for comp in self._scml_components for x in comp.<attr>]
RECURSIVE Flatten(_, _)
Flatten(order, perComp) ==
    IF order = <<>> THEN <<>>
    ELSE perComp[Head(order)] \o Flatten(Tail(order), perComp)

\* number of names in self._state_names
NumStateNames(c) == Len(Flatten(scml_components, c.limits))

\* what the engine reads of its components once it is built; their shapes are
\* read by __init__ alone
Components(c) ==
    [ limits |-> c.limits, load_ode_size |-> c.load_ode_size,
      motor_ode_size |-> c.motor_ode_size ]

\* if calc_jacobian is None:
\*     calc_jacobian = motor.HAS_JACOBIAN and load.HAS_JACOBIAN
calc_jacobian_or_default(c) ==
    IF c.calc_jacobian = None
    THEN c.has_jacobian.motor /\ c.has_jacobian.load
    ELSE c.calc_jacobian[1]

\* a selection that trusts calc_jacobian without asking the motor and the load
select_jacobian_as_requested(c) == calc_jacobian_or_default(c)

\* jac = self._system_jacobian (TRUE) or jac = None (FALSE)
select_jacobian(c) ==
    calc_jacobian_or_default(c) /\ c.has_jacobian.motor /\ c.has_jacobian.load

\* if calc_jacobian and jac is None: warnings.warn(...)
warns(c) == calc_jacobian_or_default(c) /\ ~select_jacobian(c)

\* the calc_jacobian argument and the HAS_JACOBIAN flags of the motor and the load
JacobianArgs(c) ==
    [calc_jacobian |-> c.calc_jacobian, motor |-> c.has_jacobian.motor,
     load |-> c.has_jacobian.load]

\* what the expression self._system_jacobian evaluates to: the bound method
\* of the class until the instance has an attribute of that name, that
\* attribute afterwards
lookup_system_jacobian(assigned) == IF assigned THEN "ndarray" ELSE "method"

\* the jac argument of set_system_equation (line 141): line 134 evaluates
\* self._system_jacobian before line 159 has assigned the attribute
jac_given_to_solver(c) ==
    IF select_jacobian(c) THEN lookup_system_jacobian(FALSE) ELSE "none"

\* an assignment at line 159 that leaves the name to the routine
system_jacobian_left_alone(c) == [kind |-> lookup_system_jacobian(FALSE), value |-> <<>>]

\* self._system_jacobian once line 159 has run: a square zero matrix
system_jacobian_attribute(c) ==
    [ kind |-> lookup_system_jacobian(TRUE),
      value |-> [r \in 1..(c.load_ode_size + c.motor_ode_size) |->
                    Zeros(c.load_ode_size + c.motor_ode_size)] ]

\* an __init__ that hands the system equation to the solver before it
\* checks the shapes
init_statements_equation_first ==
    << "set_system_equation", "assert supply_shape", "assert output_shape",
       "assert torque_shape", "set_j_rotor" >>

\* the statements of __init__ that assert or that call a method of a
\* component which changes it, in the order of lines 119 to 143
init_statements ==
    << "assert supply_shape", "assert output_shape", "assert torque_shape",
       "set_system_equation", "set_j_rotor" >>

\* whether a statement of __init__ lets the next one run
StatementPasses(c, stmt) ==
    CASE stmt = "assert supply_shape" -> c.shape.supply = c.shape.converter_supply
      [] stmt = "assert output_shape" -> c.shape.converter_output = c.shape.motor_input
      [] stmt = "assert torque_shape" -> c.shape.motor_torque = c.shape.load_speed
      [] OTHER -> TRUE

\* the statements __init__ executes completely
executed_statements(c) ==
    { init_statements[i] : i \in { n \in 1..Len(init_statements) :
          \A m \in 1..n : StatementPasses(c, init_statements[m]) } }

\* what __init__ has done to the components it was given
component_effects(c) ==
    [ equation_set |-> "set_system_equation" \in executed_statements(c),
      j_rotor_set |-> "set_j_rotor" \in executed_statements(c) ]

\* SCMLSystem.__init__(converter, motor, load, supply, ode_solver, tau, calc_jacobian)
SCML_init(c) ==
    IF ~ShapeAsserts(c)
    THEN [ ps |-> [NoSystem EXCEPT !.components = component_effects(c)],
           call |-> [NoCall EXCEPT !.op = "__init__", !.outcome = "raised",
                                   !.err = "AssertionError", !.arg = c.shape] ]
    ELSE [ ps |-> [ built |-> TRUE, cfg |-> Some(Components(c)), limits |-> None,
                    t |-> 0, k |-> 0,
                    motor_state |-> None, load_state |-> None,
                    system_observation |-> ArrFloat(Zeros(NumStateNames(c))),
                    initial_ode_value |-> Zeros(c.motor_ode_size + c.load_ode_size),
                    solver_t |-> 0, solver_y |-> None, jac |-> select_jacobian(c),
                    system_derivative |-> Zeros(c.load_ode_size + c.motor_ode_size),
                    system_jacobian |-> system_jacobian_attribute(c),
                    solver_jac |-> jac_given_to_solver(c),
                    components |-> component_effects(c),
                    handed_out |-> None ],
           call |-> [NoCall EXCEPT !.op = "__init__", !.outcome = "returned",
                                   !.arg = c.shape, !.jarg = JacobianArgs(c),
                                   !.warned = warns(c)] ]

\* the limits property with the components listed in the constructor's
\* parameter order (converter, motor, load, supply)
LimitsInParameterOrder(p) ==
    IF p.limits = None
    THEN [p EXCEPT !.limits =
            Some(ArrFloat(Flatten(<<"converter", "motor", "load", "supply">>,
                                  p.cfg[1].limits)))]
    ELSE p

\* the limits property: computed on the first read, then kept
LimitsProperty(p) ==
    IF p.limits = None
    THEN [p EXCEPT !.limits = Some(ArrFloat(Flatten(scml_components, p.cfg[1].limits)))]
    ELSE p

\* self._load_ode_slice and self._motor_ode_slice
load_ode_slice(c) == <<0, c.load_ode_size>>

motor_ode_slice(c) == <<c.load_ode_size, c.load_ode_size + c.motor_ode_size>>

\* np.concatenate((load.get_observation(..), motor.get_observation(..),
\*                 converter.get_observation(), supply.get_observation()))
ConcatObservation(obs) ==
    ArrFloat(obs["load"] \o obs["motor"] \o obs["converter"] \o obs["supply"])

Raised(op, err, obs) ==
    [NoCall EXCEPT !.op = op, !.outcome = "raised", !.err = err, !.obs = obs]

Returned(op, ret, obs) ==
    [NoCall EXCEPT !.op = op, !.outcome = "returned", !.ret = ret, !.obs = obs]

\* self._motor_state = y[motor slice]; self._load_state = y[load slice];
\* self.system_observation = np.concatenate(...)
split_and_observe(p, y, obs) ==
    [p EXCEPT !.motor_state = Some(Slice(y, motor_ode_slice(p.cfg[1])[1],
                                            motor_ode_slice(p.cfg[1])[2])),
              !.load_state = Some(Slice(y, load_ode_slice(p.cfg[1])[1],
                                           load_ode_slice(p.cfg[1])[2])),
              !.system_observation = ConcatObservation(obs)]

\* return self.system_observation / self._limits
normalized(op, p, obs) ==
    IF p.limits = None
    THEN [ps |-> p, call |-> Raised(op, "TypeError", obs)]
    ELSE [ps |-> p, call |-> Returned(op, ArrDiv(p.system_observation, p.limits[1]), obs)]

\* PhysicalSystem.reset(self): the cycle counter and the time start again
PhysicalSystem_reset(p) == [p EXCEPT !.k = 0, !.t = 0]

\* self._ode_solver.set_initial_value(self.initial_ode_value, self._t)
set_initial_value(p) == [p EXCEPT !.solver_y = Some(p.initial_ode_value), !.solver_t = p.t]

\* one call the engine makes on a component or on the solver:
\* t: the time it is given, state: the state it is given, uses: the
\* local variables it is given, ret: the ODE state integrate returns
LoopCall(name, t, state, uses, ret) ==
    [ev |-> name, t |-> t, state |-> state, uses |-> uses, ret |-> ret]

\* a reset that resets the supply before the load
reset_order_supply_first ==
    << "PhysicalSystem.reset", "next_generator", "supply.reset", "motor.reset",
       "converter.reset", "load.reset" >>

\* lines 238 to 243 of reset, in the order they are executed
reset_order ==
    << "PhysicalSystem.reset", "next_generator", "load.reset", "motor.reset",
       "converter.reset", "supply.reset" >>

\* the statement of reset that resets a component
ResetCallOf ==
    [ load |-> "load.reset", motor |-> "motor.reset", converter |-> "converter.reset",
      supply |-> "supply.reset" ]

\* the calls of lines 238 to 243 up to the one that raises (all of them when
\* none does)
component_resets(fail) ==
    IF fail = ""
    THEN [i \in 1..Len(reset_order) |-> LoopCall(reset_order[i], None, None, <<>>, None)]
    ELSE [i \in 1..(CHOOSE n \in 1..Len(reset_order) : reset_order[n] = ResetCallOf[fail]) |->
            LoopCall(reset_order[i], None, None, <<>>, None)]

\* the calls of lines 245 to 253: q is the engine once lines 245 to 247 have run
calls_after_resets(q) ==
    << LoopCall("solver.set_initial_value", Some(q.t), Some(q.initial_ode_value), <<>>, None),
       LoopCall("load.get_observation", None, q.load_state, <<>>, None),
       LoopCall("motor.get_observation", None, q.motor_state, <<>>, None),
       LoopCall("converter.get_observation", None, None, <<>>, None),
       LoopCall("supply.get_observation", None, None, <<>>, None) >>

\* lines 245 to 254 of reset
reset_after_resets(p, obs) ==
    normalized("reset", split_and_observe(set_initial_value(p), set_initial_value(p).solver_y[1], obs),
               obs)

\* when reset was called: the engine's time and cycle counter before the call
ResetArgs(p) == [t |-> p.t, k |-> p.k]

\* the call record of a reset in which no component raises
reset_called(r, p) ==
    [ ps |-> r.ps,
      call |-> [r.call EXCEPT !.arg = ResetArgs(p),
                              !.trace = component_resets("") \o calls_after_resets(r.ps)] ]

\* SCMLSystem.reset(); obs: what each component's get_observation returns,
\* fail: the component whose reset() raises ("" for none)
SCML_reset(p, obs, fail) ==
    IF fail # ""
    THEN [ ps |-> PhysicalSystem_reset(p),
           call |-> [Raised("reset", "ComponentError", NoObs) EXCEPT
                        !.trace = component_resets(fail)] ]
    ELSE reset_called(reset_after_resets(PhysicalSystem_reset(p), obs), p)

\* PhysicalSystem._count_step(): one more control cycle has elapsed
count_step(p) == [p EXCEPT !.k = p.k + 1, !.t = p.t + TauTicks]

Last(q) == q[Len(q)]

\* simulate reads self._motor_state_slice and self._load_state_slice
SimulateFindsSlices ==
    HasAttribute("_motor_state_slice") /\ HasAttribute("_load_state_slice")

\* switching times with the end of the interval put first
switching_times_end_first(p, sw) == <<p.t + TauTicks>> \o sw

\* switching_times = self._converter.set_action(action, self._t) + [self._t + self._tau]
switching_times(p, sw) == sw \o <<p.t + TauTicks>>

\* for t in switching_times: ...; ode_state = self._ode_solver.integrate(t)
integrate_all(p, sw, ys) ==
    [p EXCEPT !.solver_t = Last(switching_times(p, sw)), !.solver_y = Some(Last(ys))]

\* self._ode_solver.t while the loop is at boundary i
solver_t_at(p, times, i) == IF i = 1 THEN p.solver_t ELSE times[i - 1]

\* the j-th statement of the loop body at boundary i
loop_statement(p, times, ys, i, j) ==
    CASE j = 1 -> LoopCall("motor.i_in", Some(times[i]), p.motor_state, <<>>, None)
      [] j = 2 -> LoopCall("converter.i_sup", None, None, <<"i_in">>, None)
      [] j = 3 -> LoopCall("supply.get_u_sup", Some(p.t), None, <<"i_sup">>, None)
      [] j = 4 -> LoopCall("converter.convert", Some(solver_t_at(p, times, i)), None,
                           <<"i_in", "u_sup">>, None)
      [] j = 5 -> LoopCall("motor.set_u_in", None, None, <<"u_in">>, None)
      [] OTHER -> LoopCall("solver.integrate", Some(times[i]), None, <<>>, Some(ys[i]))

\* the calls of the loop `for t in switching_times`, in the order they are made
loop_calls(p, times, ys) ==
    [n \in 1..(6 * Len(times)) |->
        loop_statement(p, times, ys, ((n - 1) \div 6) + 1, ((n - 1) % 6) + 1)]

\* what simulate was called with and when
SimulateArgs(p, action, sw) ==
    [t |-> p.t, k |-> p.k, sw |-> sw, motor_state |-> p.motor_state]

simulate_called(r, p, action, sw, ys) ==
    [ ps |-> r.ps,
      call |-> [r.call EXCEPT !.arg = SimulateArgs(p, action, sw),
                              !.trace = loop_calls(p, switching_times(p, sw), ys)] ]

\* lines 180 to 191 of simulate, after the loop
simulate_after_loop(p, ys, obs) ==
    IF ~SimulateFindsSlices
    THEN [ps |-> count_step(p), call |-> Raised("simulate", "AttributeError", NoObs)]
    ELSE normalized("simulate", split_and_observe(count_step(p), Last(ys), obs), obs)

\* SCMLSystem.simulate(action); sw: the switching times converter.set_action
\* returns, ys: what solver.integrate returns at each boundary, obs: what each
\* component's get_observation returns
SCML_simulate(p, action, sw, ys, obs) ==
    simulate_called(simulate_after_loop(integrate_all(p, sw, ys), ys, obs),
                    p, action, sw, ys)

\* ------------------------------------------------- inputs of the engine
\* shapes a component may declare
Shapes == {<<1>>, <<3>>}

ShapeNames ==
    {"supply", "converter_supply", "converter_output", "motor_input", "motor_torque",
     "load_speed"}

\* limits the components may declare, one entry per observed quantity
LimitConfigs ==
    { [load |-> <<13>>, motor |-> <<3>>, converter |-> <<7>>, supply |-> <<11>>],
      [load |-> <<1>>,  motor |-> <<9>>, converter |-> <<5>>, supply |-> <<6>>] }

\* motor.ode_size
MotorOdeSizes == {1, 2}

\* the calc_jacobian argument: None, True or False
CalcJacobianArgs == {None, Some(TRUE), Some(FALSE)}

Configs ==
    { [shape |-> sh, limits |-> lim, load_ode_size |-> 1, motor_ode_size |-> ms,
       calc_jacobian |-> cj, has_jacobian |-> [motor |-> mj, load |-> lj]] :
        sh \in [ShapeNames -> Shapes], lim \in LimitConfigs, ms \in MotorOdeSizes,
        cj \in CalcJacobianArgs, mj \in BOOLEAN, lj \in BOOLEAN }

\* raw values a component may observe
ObsValues == {-13, 5}

\* what the four components observe: the load and the supply one value,
\* the motor and the converter another or the same
Observations(c) ==
    { [load |-> [i \in 1..Len(c.limits["load"]) |-> a],
       motor |-> [i \in 1..Len(c.limits["motor"]) |-> b],
       converter |-> [i \in 1..Len(c.limits["converter"]) |-> b],
       supply |-> [i \in 1..Len(c.limits["supply"]) |-> a]] :
        a \in ObsValues, b \in ObsValues }

\* the components are asked for their observation only when simulate gets there
SimObservations(c) == IF SimulateFindsSlices THEN Observations(c) ELSE {NoObs}

OdeValues == {0, 1}

\* ODE states the solver may return: all entries alike, or the motor segment
\* apart from the load segment
OdeStates(c) ==
    {[i \in 1..(c.load_ode_size + c.motor_ode_size) |-> v] : v \in OdeValues}
        \cup {[i \in 1..(c.load_ode_size + c.motor_ode_size) |->
                  IF i <= c.load_ode_size THEN 0 ELSE 1]}

\* switching times strictly inside the control interval that starts at t
SwitchingTimes(t) == {<<>>} \cup {<<t + i>> : i \in 1..(TauTicks - 1)}

\* the solver's results, one for each boundary of the interval
Integrations(c, sw) == [1..(Len(sw) + 1) -> OdeStates(c)]

Actions == {0, 1}

\* the action an engine is given reaches its state through the switching times
\* converter.set_action returns, which are drawn on their own
EngineActions == {a \in Actions : a = 1}

\* ----------------------------------------------- actions on the engine
Construct ==
    /\ ~ps.built
    /\ \E c \in Configs :
          /\ ps' = SCML_init(c).ps
          /\ engCall' = SCML_init(c).call
    /\ UNCHANGED <<kind, done, gk, envCall, ready, aux>>

ReadLimits ==
    /\ ps.built
    /\ ps' = LimitsProperty(ps)
    /\ engCall' = Returned("limits", ps'.limits[1], NoObs)
    /\ UNCHANGED <<kind, done, gk, envCall, ready, aux>>

EngineReturns(r) ==
    /\ ps' = r.ps
    /\ engCall' = r.call
    /\ UNCHANGED <<kind, done, gk, envCall, ready, aux>>

EngReset ==
    /\ ps.built
    /\ \E obs \in Observations(ps.cfg[1]), fail \in {"", "motor"} :
          EngineReturns(SCML_reset(ps, obs, fail))

EngSimulate ==
    /\ ps.built
    /\ ps.k < MaxSteps
    /\ \E a \in EngineActions, sw \in SwitchingTimes(ps.t), obs \in SimObservations(ps.cfg[1]) :
        \E ys \in Integrations(ps.cfg[1], sw) :
          EngineReturns(SCML_simulate(ps, a, sw, ys, obs))


\* ------------------------------- the system equation and its Jacobian
\* buf[lo:hi] = v
AssignSlice(buf, lo, hi, v) ==
    [i \in 1..Len(buf) |-> IF lo < i /\ i <= hi THEN v[i - lo] ELSE buf[i]]

\* names the body of _system_jacobian reads that no statement binds
UnboundNames == {"system_jac"}

\* what the RHS was called with, what it handed to the components (the motor
\* state to electrical_ode and torque, the load state to get_omega and
\* mechanical_ode) and what they returned
EquationArgs(p, state, dmotor, dload) ==
    [ state |-> state,
      motor_state |-> Slice(state, motor_ode_slice(p.cfg[1])[1], motor_ode_slice(p.cfg[1])[2]),
      load_state |-> Slice(state, load_ode_slice(p.cfg[1])[1], load_ode_slice(p.cfg[1])[2]),
      dmotor |-> dmotor, dload |-> dload ]

\* self._system_derivative[self._motor_ode_slice] = electrical_ode(...)
\* self._system_derivative[self._load_ode_slice] = mechanical_ode(...)
write_derivative(p, dmotor, dload) ==
    AssignSlice(AssignSlice(p.system_derivative, motor_ode_slice(p.cfg[1])[1],
                            motor_ode_slice(p.cfg[1])[2], dmotor),
                load_ode_slice(p.cfg[1])[1], load_ode_slice(p.cfg[1])[2], dload)

\* the object line 211 returns: the array the attribute _system_derivative
\* names, not a copy of it; value: what it holds when it is returned
returned_object(p, dmotor, dload) ==
    [ref |-> "_system_derivative", value |-> write_derivative(p, dmotor, dload)]

\* what an array handed out earlier holds now: the buffer's content if it is
\* the buffer, what it held when it was returned if it is an array of its own
holds_now(obj, p) ==
    IF obj.ref = "_system_derivative" THEN p.system_derivative ELSE obj.value

\* SCMLSystem._system_equation(t, state); dmotor and dload: what
\* motor.electrical_ode and load.mechanical_ode return; the call record keeps
\* the array the evaluation before this one returned (earlier)
SCML_system_equation(p, state, dmotor, dload) ==
    [ ps |-> [p EXCEPT !.system_derivative = write_derivative(p, dmotor, dload),
                       !.handed_out = Some(returned_object(p, dmotor, dload))],
      call |-> [NoCall EXCEPT !.op = "_system_equation", !.outcome = "returned",
                              !.ret = write_derivative(p, dmotor, dload),
                              !.arg = EquationArgs(p, state, dmotor, dload),
                              !.earlier = p.handed_out] ]

\* the matrix lines 224 to 229 assemble in a zero matrix of size n; in: what
\* electrical_jacobian and mechanical_jacobian return, w: self._omega_ode_idx
assemble_jacobian(in, n, w) ==
    [r \in 1..n |-> [c \in 1..n |->
        IF r <= Len(in.load_jac) /\ c > Len(in.load_jac)
        THEN in.load_over_torque[r] * in.torque_over_el_state[c - Len(in.load_jac)]
        ELSE IF r > n - Len(in.motor_jac) /\ c = w + 1
        THEN in.el_state_over_omega[r - (n - Len(in.motor_jac))]
        ELSE IF r > n - Len(in.motor_jac) /\ c > n - Len(in.motor_jac)
        THEN in.motor_jac[r - (n - Len(in.motor_jac))][c - (n - Len(in.motor_jac))]
        ELSE IF r <= Len(in.load_jac) /\ c <= Len(in.load_jac)
        THEN in.load_jac[r][c]
        ELSE 0]]

\* SCMLSystem._system_jacobian(t, state), the routine the solver was given:
\* state[self._load_ode_idx] is evaluated after electrical_jacobian and torque
\* have returned, system_jac is read after mechanical_jacobian has returned
SCML_system_jacobian(p, state, in) ==
    [ ps |-> p,
      call |->
        IF ~HasAttribute("_load_ode_idx")
        THEN [NoCall EXCEPT !.op = "_system_jacobian", !.outcome = "raised",
                            !.err = "AttributeError", !.arg = in]
        ELSE IF "system_jac" \in UnboundNames \/ ~HasAttribute("_omega_ode_idx")
        THEN [NoCall EXCEPT !.op = "_system_jacobian", !.outcome = "raised",
                            !.err = "NameError", !.arg = in]
        ELSE [NoCall EXCEPT !.op = "_system_jacobian", !.outcome = "returned",
                            !.ret = assemble_jacobian(in, Len(state), 0), !.arg = in] ]

\* what the motor and the load return: derivatives ...
MotorDerivatives(c) == {[i \in 1..c.motor_ode_size |-> v] : v \in {7, 8}}

\* the motor's derivative at a state: one value where the last current is 0,
\* another where it is 1
electrical_ode(c, state) == {d \in MotorDerivatives(c) : d[1] = 7 + state[Len(state)]}

LoadDerivatives(c) == {[i \in 1..c.load_ode_size |-> 3]}

\* ... and Jacobians
JacobianInputs(c) ==
    { [ motor_jac |-> [r \in 1..c.motor_ode_size |-> [k \in 1..c.motor_ode_size |-> 10 * r + k]],
        el_state_over_omega |-> [r \in 1..c.motor_ode_size |-> 40 + r],
        torque_over_el_state |-> [k \in 1..c.motor_ode_size |-> 2 + k],
        load_jac |-> [r \in 1..c.load_ode_size |-> [k \in 1..c.load_ode_size |-> 50 + r + k]],
        load_over_torque |-> [r \in 1..c.load_ode_size |-> 5 + r] ] }

\* the solver, once it has an initial value, evaluates the system equation
EngSystemEquation ==
    /\ ps.built
    /\ ps.solver_y # None
    /\ \E state \in OdeStates(ps.cfg[1]), dload \in LoadDerivatives(ps.cfg[1]) :
        \E dmotor \in electrical_ode(ps.cfg[1], state) :
          EngineReturns(SCML_system_equation(ps, state, dmotor, dload))

\* the solver evaluates the Jacobian routine it was given
EngSystemJacobian ==
    /\ ps.built
    /\ ps.jac
    /\ ps.solver_jac = "method"
    /\ \E state \in OdeStates(ps.cfg[1]), in \in JacobianInputs(ps.cfg[1]) :
          EngineReturns(SCML_system_jacobian(ps, state, in))

\* ================================================= ElectricMotorEnvironment
\* electric_motor_environment.py

\* the `1.0` of `violation_degree >= 1.0`; violation degrees are counted in tenths
ViolationLimit == 10

\* violation degrees the constraint monitor may return, in tenths
ViolationDegrees == {9, 10, 11}

\* states a physical system that is not an SCMLSystem may return
GenericStates == {<<Float(0)>>, <<Float(1)>>}

References == {"refA", "refB"}

Rewards == {-1}

NoEnvCall ==
    [ op |-> "none", outcome |-> "none", err |-> "", log |-> <<>>, ret |-> <<>>, n |-> 0,
      vd |-> 0, ended |-> FALSE, pending |-> FALSE ]

\* one call the environment makes on a collaborator: its name, the index of the
\* callback (0 for the other collaborators), the value of self._done when the
\* call is made, and the arguments passed
Event(name, i, d, args) == [ev |-> name, idx |-> i, done |-> d, args |-> args]

\* _call_callbacks(func_name, *args): every callback, in the order of self._callbacks
call_callbacks(func_name, d, args) ==
    [i \in 1..NumCallbacks |-> Event(func_name, i, d, args)]

NoFail == [ev |-> "", idx |-> 0]

\* the place in `events` of the call `fail` names (0 when it names none)
Place(events, fail) ==
    IF \E i \in 1..Len(events) : events[i].ev = fail.ev /\ events[i].idx = fail.idx
    THEN CHOOSE i \in 1..Len(events) : events[i].ev = fail.ev /\ events[i].idx = fail.idx
    ELSE 0

\* the call at which a handler stops (0: it returns): the collaborator at place f
\* raises, and so does the physical system, called at place `at`, when `raised`
StopsAt(f, raised, at) == IF raised /\ (f = 0 \/ f >= at) THEN at ELSE f

\* self.physical_system.k
physical_system_k == IF kind = "SCML" THEN ps.k ELSE gk

\* what the environment gets from a method of its SCMLSystem: the object as the
\* method left it and whether it returned or raised
FromEngine(r) ==
    [ps |-> r.ps, gk |-> gk, call |-> [r.call EXCEPT !.arg = <<>>, !.trace = <<>>],
     raised |-> r.call.outcome = "raised",
     err |-> r.call.err, state |-> r.call.ret]

\* self._physical_system.reset()
physical_system_reset(in) ==
    IF kind = "SCML"
    THEN FromEngine(SCML_reset(ps, in.obs, ""))
    ELSE [ps |-> ps, gk |-> 0, call |-> engCall,
          raised |-> in.fail.ev = "physical_system.reset", err |-> "CollaboratorError",
          state |-> in.state]

\* self._physical_system.simulate(action)
physical_system_simulate(action, in) ==
    IF kind = "SCML"
    THEN FromEngine(SCML_simulate(ps, action, in.sw, in.ys, in.obs))
    ELSE [ps |-> ps, gk |-> gk + 1, call |-> engCall,
          raised |-> in.fail.ev = "physical_system.simulate", err |-> "CollaboratorError",
          state |-> in.state]

\* the calls of reset(), in the order of its statements; self._done = False
\* stands between the on_reset_begin callbacks and the reset of the physical system
reset_events(d, state, reference) ==
    call_callbacks("on_reset_begin", d, <<>>)
    \o << Event("physical_system.reset", 0, FALSE, <<>>),
          Event("reference_generator.reset", 0, FALSE, <<state>>),
          Event("reference_generator.get_reference_observation", 0, FALSE, <<state>>),
          Event("reward_function.reset", 0, FALSE, <<>>) >>
    \o call_callbacks("on_reset_end", FALSE, <<state, reference>>)

\* what reset() leaves behind when it stops at call `cut`; the physical system is
\* called at place `at`
reset_result(in, e, events, cut, at) ==
    [ done  |-> IF cut = 0 \/ cut >= at THEN FALSE ELSE done,
      ps    |-> IF cut = 0 \/ cut >= at THEN e.ps ELSE ps,
      gk    |-> IF cut = 0 \/ cut >= at THEN e.gk ELSE gk,
      eng   |-> IF cut = 0 \/ cut >= at THEN e.call ELSE engCall,
      ready |-> IF cut = 0 THEN TRUE ELSE ready,
      call  |-> [ op |-> "reset", n |-> 1 - envCall.n, vd |-> 0, ended |-> FALSE,
                  pending |-> IF cut = 0 THEN FALSE ELSE envCall.pending,
                  log |-> IF cut = 0 THEN events ELSE SubSeq(events, 1, cut),
                  outcome |-> IF cut = 0 THEN "returned" ELSE "raised",
                  err |-> IF cut = 0 THEN ""
                          ELSE IF cut = at /\ e.raised THEN e.err ELSE "CollaboratorError",
                  ret |-> IF cut = 0 THEN <<e.state, in.ref>> ELSE <<>> ] ]

reset_stops(in, e, events, at) ==
    reset_result(in, e, events, StopsAt(Place(events, in.fail), e.raised, at), at)

reset_from(in, e, events) ==
    reset_stops(in, e, events, Place(events, [ev |-> "physical_system.reset", idx |-> 0]))

reset_with(in, e) == reset_from(in, e, reset_events(done, e.state, in.ref))

\* ElectricMotorEnvironment.reset()
env_reset(in) == reset_with(in, physical_system_reset(in))

\* a termination rule that lets a violation degree of exactly 1.0 pass
TerminatesAbove(violation_degree) == violation_degree > ViolationLimit

\* the termination rule of step()
Terminates(violation_degree) == violation_degree >= ViolationLimit

\* the calls of a step() that assigns self._done only after the on_step_end
\* callbacks: they are handed the flag as it was
step_events_late_done(action, in, k0, k1, state, new_done) ==
    call_callbacks("on_step_begin", FALSE, <<k0, action>>)
    \o << Event("physical_system.simulate", 0, FALSE, <<action>>),
          Event("reference_generator.get_reference", 0, FALSE, <<state>>),
          Event("constraint_monitor.check_constraints", 0, FALSE, <<state>>),
          Event("reward_function.reward", 0, FALSE, <<state, in.ref, k1, action, in.vd>>),
          Event("reference_generator.get_reference_observation", 0, FALSE, <<state>>) >>
    \o call_callbacks("on_step_end", FALSE, <<k1, state, in.ref, in.rew, FALSE>>)

\* the calls of step(), in the order of its statements; self._done is assigned
\* between the call of reward and get_reference_observation
step_events(action, in, k0, k1, state, new_done) ==
    call_callbacks("on_step_begin", FALSE, <<k0, action>>)
    \o << Event("physical_system.simulate", 0, FALSE, <<action>>),
          Event("reference_generator.get_reference", 0, FALSE, <<state>>),
          Event("constraint_monitor.check_constraints", 0, FALSE, <<state>>),
          Event("reward_function.reward", 0, FALSE, <<state, in.ref, k1, action, in.vd>>),
          Event("reference_generator.get_reference_observation", 0, new_done, <<state>>) >>
    \o call_callbacks("on_step_end", new_done, <<k1, state, in.ref, in.rew, new_done>>)

\* a step() that reports done = False to its caller whatever it stored
step_return_never_done(e, in, new_done) == << <<e.state, in.nxt>>, in.rew, FALSE, <<>> >>

\* return (state, ref_next), reward, self._done, {}
step_return(e, in, new_done) == << <<e.state, in.nxt>>, in.rew, new_done, <<>> >>

\* what step() leaves behind when it stops at call `cut`; the physical system is
\* called at place `at`, self._done is assigned before place `assigned`
step_result(in, e, events, new_done, cut, at, assigned) ==
    [ done  |-> IF cut = 0 \/ cut >= assigned THEN new_done ELSE done,
      ps    |-> IF cut = 0 \/ cut >= at THEN e.ps ELSE ps,
      gk    |-> IF cut = 0 \/ cut >= at THEN e.gk ELSE gk,
      eng   |-> IF cut = 0 \/ cut >= at THEN e.call ELSE engCall,
      ready |-> IF (cut = 0 \/ cut >= assigned) /\ new_done THEN FALSE ELSE ready,
      call  |-> [ op |-> "step", n |-> 1 - envCall.n,
                  vd |-> IF cut = 0 THEN in.vd ELSE 0,
                  ended |-> cut = 0 /\ in.ended,
                  pending |-> envCall.pending,
                  log |-> IF cut = 0 THEN events ELSE SubSeq(events, 1, cut),
                  outcome |-> IF cut = 0 THEN "returned" ELSE "raised",
                  err |-> IF cut = 0 THEN ""
                          ELSE IF cut = at /\ e.raised THEN e.err ELSE "CollaboratorError",
                  ret |-> IF cut = 0
                          THEN step_return(e, in, new_done)
                          ELSE <<>> ] ]

step_stops(in, e, events, new_done, at, assigned) ==
    step_result(in, e, events, new_done,
                StopsAt(Place(events, in.fail), e.raised, at), at, assigned)

step_from(in, e, events, new_done) ==
    step_stops(in, e, events, new_done,
               Place(events, [ev |-> "physical_system.simulate", idx |-> 0]),
               Place(events, [ev |-> "reference_generator.get_reference_observation",
                              idx |-> 0]))

step_with(action, in, k0, e, k1, new_done) ==
    step_from(in, e, step_events(action, in, k0, k1, e.state, new_done), new_done)

step_after(action, in, k0, e) ==
    step_with(action, in, k0, e, IF kind = "SCML" THEN e.ps.k ELSE e.gk, Terminates(in.vd))

\* a step() whose assertion stands after the on_step_begin callbacks
env_step_late_assert(action, in) ==
    IF done
    THEN [ done |-> done, ps |-> ps, gk |-> gk, eng |-> engCall, ready |-> ready,
           call |-> [ op |-> "step", n |-> 1 - envCall.n,
                      log |-> call_callbacks("on_step_begin", done,
                                             <<physical_system_k, action>>),
                      vd |-> 0, ended |-> FALSE, pending |-> envCall.pending,
                      outcome |-> "raised", err |-> "AssertionError", ret |-> <<>> ] ]
    ELSE step_after(action, in, physical_system_k, physical_system_simulate(action, in))

\* ElectricMotorEnvironment.step(action)
env_step(action, in) ==
    IF done
    THEN \* assert not self._done
         [ done |-> done, ps |-> ps, gk |-> gk, eng |-> engCall, ready |-> ready,
           call |-> [ op |-> "step", n |-> 1 - envCall.n, log |-> <<>>,
                      vd |-> 0, ended |-> FALSE, pending |-> envCall.pending, outcome |-> "raised", err |-> "AssertionError", ret |-> <<>> ] ]
    ELSE step_after(action, in, physical_system_k, physical_system_simulate(action, in))

\* ------------------------------------------ inputs of the environment
\* the collaborator call that raises, if one does
ResetFails ==
    {NoFail}
    \cup {[ev |-> f, idx |-> i] : f \in {"on_reset_begin", "on_reset_end"}, i \in 1..NumCallbacks}
    \cup {[ev |-> f, idx |-> 0] :
            f \in {"reference_generator.reset", "reward_function.reset"}}
    \cup (IF kind = "Generic" THEN {[ev |-> "physical_system.reset", idx |-> 0]} ELSE {})

StepFails ==
    {NoFail}
    \cup {[ev |-> f, idx |-> i] : f \in {"on_step_begin", "on_step_end"}, i \in 1..NumCallbacks}
    \cup {[ev |-> f, idx |-> 0] :
            f \in {"reference_generator.get_reference", "reward_function.reward"}}
    \cup (IF kind = "Generic" THEN {[ev |-> "physical_system.simulate", idx |-> 0]} ELSE {})

\* the components of the SCMLSystem the environment is built around
EnvConfig ==
    [ shape |-> [n \in ShapeNames |-> <<1>>],
      limits |-> [load |-> <<13>>, motor |-> <<3>>, converter |-> <<7>>, supply |-> <<11>>],
      load_ode_size |-> 1, motor_ode_size |-> 1,
      calc_jacobian |-> None, has_jacobian |-> [motor |-> TRUE, load |-> TRUE] ]

EnvObservations ==
    { [load |-> <<5>>, motor |-> <<-13>>, converter |-> <<5>>, supply |-> <<5>>],
      [load |-> <<-13>>, motor |-> <<5>>, converter |-> <<-13>>, supply |-> <<5>>] }

\* what the collaborators return during a reset
ResetInputs ==
    IF kind = "SCML"
    THEN {[fail |-> f, ref |-> r, obs |-> o, state |-> <<>>] :
            f \in ResetFails, r \in References, o \in EnvObservations}
    ELSE {[fail |-> f, ref |-> r, obs |-> NoObs, state |-> x] :
            f \in ResetFails, r \in References, x \in GenericStates}

\* what the collaborators return during a step (ended: the reference generator
\* has come to the end of its reference in this cycle); none is asked when the
\* assertion of step() fails, and none after a simulate that cannot return
StepInputs ==
    IF done
    THEN {[fail |-> NoFail, ref |-> "refA", nxt |-> "refA", rew |-> -1, vd |-> 0,
           ended |-> FALSE, obs |-> NoObs, state |-> <<>>, sw |-> <<>>, ys |-> <<>>]}
    ELSE IF kind = "SCML"
    THEN {[fail |-> f, ref |-> r, nxt |-> r, rew |-> w, vd |-> v, ended |-> b, obs |-> o,
           state |-> <<>>, sw |-> sw, ys |-> ys] :
            f \in IF SimulateFindsSlices THEN StepFails
                  ELSE {x \in StepFails : x.ev \in {"", "on_step_begin"}},
            r \in IF SimulateFindsSlices THEN References ELSE {"refA"},
            w \in Rewards,
            v \in IF SimulateFindsSlices THEN ViolationDegrees ELSE {0},
            b \in IF SimulateFindsSlices THEN BOOLEAN ELSE {FALSE},
            o \in SimObservations(ps.cfg[1]), sw \in SwitchingTimes(ps.t),
            ys \in UNION {[1..n -> OdeStates(ps.cfg[1])] : n \in 1..TauTicks}}
    ELSE {[fail |-> f, ref |-> r, nxt |-> r, rew |-> w, vd |-> v, ended |-> b, obs |-> NoObs,
           state |-> x, sw |-> <<>>, ys |-> <<>>] :
            f \in StepFails, r \in References, w \in Rewards, v \in ViolationDegrees,
            b \in BOOLEAN, x \in GenericStates}

\* -------------------------------------------- actions on the environment
EnvReturns(r) ==
    /\ done' = r.done
    /\ ps' = r.ps
    /\ gk' = r.gk
    /\ engCall' = r.eng
    /\ ready' = r.ready
    /\ envCall' = r.call
    /\ UNCHANGED <<kind, aux>>

Reset == \E in \in ResetInputs : EnvReturns(env_reset(in))

Step ==
    /\ done \/ physical_system_k < MaxSteps
    /\ \E action \in Actions, in \in StepInputs :
         /\ (kind = "SCML" /\ ~done) => Len(in.ys) = Len(in.sw) + 1
         /\ EnvReturns(env_step(action, in))

\* the limits property of the environment reads physical_system.limits
Limits ==
    /\ kind = "SCML"
    /\ ps' = LimitsProperty(ps)
    /\ UNCHANGED <<engCall, kind, done, gk, envCall, ready, aux>>

\* the setter of reference_generator: a reset is required afterwards
SetReferenceGenerator ==
    /\ done' = TRUE
    /\ ready' = FALSE
    /\ envCall' = [NoEnvCall EXCEPT !.op = "set_reference_generator", !.outcome = "returned",
                                    !.n = 1 - envCall.n, !.pending = TRUE]
    /\ UNCHANGED <<ps, engCall, kind, gk, aux>>

\* the setter of reward_function: a reset is required afterwards
SetRewardFunction ==
    /\ done' = TRUE
    /\ ready' = FALSE
    /\ envCall' = [NoEnvCall EXCEPT !.op = "set_reward_function", !.outcome = "returned",
                                    !.n = 1 - envCall.n, !.pending = TRUE]
    /\ UNCHANGED <<ps, engCall, kind, gk, aux>>

\* the environment after __init__: self._done = True
Init ==
    /\ kind \in {"SCML", "Generic"}
    /\ ps = IF kind = "SCML" THEN SCML_init(EnvConfig).ps ELSE NoSystem
    /\ engCall = NoCall
    /\ done = TRUE
    /\ gk = 0
    /\ envCall = NoEnvCall
    /\ ready = FALSE
    /\ seedSt = None
    /\ conv = None
    /\ motor = None

Next == Reset \/ Step \/ Limits \/ SetReferenceGenerator \/ SetRewardFunction

Spec == Init /\ [][Next]_vars

\* ------------------------------------------------- the engine on its own
InitEngine ==
    /\ ps = NoSystem
    /\ engCall = NoCall
    /\ kind = "SCML"
    /\ done = TRUE
    /\ gk = 0
    /\ envCall = NoEnvCall
    /\ ready = FALSE
    /\ seedSt = None
    /\ conv = None
    /\ motor = None

NextEngine ==
    Construct \/ ReadLimits \/ EngReset \/ EngSimulate \/ EngSystemEquation
        \/ EngSystemJacobian

SpecEngine == InitEngine /\ [][NextEngine]_vars

\* ================================================================ seeding
\* electric_motor_environment.py, seed; scml_system.py, seed

MaxGenerators == 2     \* generators an engine draws between two seedings
NumSeeds == 3          \* integers a seed may be

\* np.random.SeedSequence(entropy)
SeedSequence(entropy) ==
    [entropy |-> entropy, spawn_key |-> <<>>, n_children_spawned |-> 0]

\* the i-th of the children sg.spawn(n) creates: the parent's entropy under a
\* spawn key that counts on from the children the parent has spawned before
SpawnChild(sg, i) ==
    [ entropy |-> sg.entropy,
      spawn_key |-> Append(sg.spawn_key, sg.n_children_spawned + i - 1),
      n_children_spawned |-> 0 ]

\* sg.spawn(n): the children ...
spawn(sg, n) == [i \in 1..n |-> SpawnChild(sg, i)]

\* ... and what it does to sg
after_spawn(sg, n) == [sg EXCEPT !.n_children_spawned = @ + n]

\* self._random_components of the engine
random_components == <<"supply", "converter", "electric_motor", "mechanical_load", "ode_solver">>

\* the seed sequences of an engine nobody has seeded, and of its components
NoEngineSeeds ==
    [seed_sequence |-> None, children |-> [i \in 1..Len(random_components) |-> None]]

\* RandomComponent.seed(self, seed): the seed sequence is replaced
RandomComponent_seed(eng, seed) == [eng EXCEPT !.seed_sequence = Some(seed)]

\* RandomComponent.next_generator(): a generator is spawned from the seed sequence
next_generator(eng) ==
    [eng EXCEPT !.seed_sequence = Some(after_spawn(eng.seed_sequence[1], 1))]

\* a pairing that hands the children out to the seedable components alone,
\* one after the other
zipped_child_skipping(sg, n, i, isRandom) ==
    spawn(sg, n)[Cardinality({j \in 1..i : isRandom[j]})]

\* zip(components, sub_seeds): the child that is paired with the i-th of n
\* components, whichever of them are RandomComponents
zipped_child(sg, n, i, isRandom) == spawn(sg, n)[i]

\* sub_seeds = self.seed_sequence.spawn(len(self._random_components)) and the
\* loop that hands them to the components that are RandomComponents
seed_random_components(eng, isRandom) ==
    [ seed_sequence |-> Some(after_spawn(eng.seed_sequence[1], Len(random_components))),
      children |-> [i \in 1..Len(random_components) |->
                      IF isRandom[i]
                      THEN Some(zipped_child(eng.seed_sequence[1], Len(random_components),
                                             i, isRandom))
                      ELSE eng.children[i]] ]

\* a seed() that spawns the components' seeds before it takes the new seed
SCML_seed_spawn_first(eng, seed, isRandom) ==
    IF eng.seed_sequence = None
    THEN seed_random_components(RandomComponent_seed(eng, seed), isRandom)
    ELSE RandomComponent_seed(seed_random_components(eng, isRandom), seed)

\* SCMLSystem.seed(seed)
SCML_seed(eng, seed, isRandom) ==
    seed_random_components(RandomComponent_seed(eng, seed), isRandom)

\* components = [physical_system, reference_generator, reward_function,
\*               constraint_monitor] + list(self._callbacks)
NumComponents == 4 + NumCallbacks

\* the seed sequences of an environment nobody has seeded
NoEnvSeeds ==
    [ engine |-> NoEngineSeeds, comps |-> [i \in 1..NumComponents |-> None],
      ret |-> None, arg |-> None, called |-> FALSE ]

\* a seed() that returns its argument
seed_return_argument(sg, seed) == seed

\* return [sg.entropy]
seed_return(sg, seed) == <<sg.entropy>>

\* the loop of seed() over zip(sub_sg, components)
seed_components(st, seed, sg, cfg) ==
    [ engine |-> IF cfg.env[1]
                 THEN SCML_seed(st.engine, zipped_child(sg, NumComponents, 1, cfg.env),
                                cfg.eng)
                 ELSE st.engine,
      comps |-> [i \in 1..NumComponents |->
                   IF i > 1 /\ cfg.env[i]
                   THEN Some(zipped_child(sg, NumComponents, i, cfg.env))
                   ELSE st.comps[i]],
      ret |-> Some(seed_return(sg, seed)),
      arg |-> seed,
      called |-> TRUE ]

\* ElectricMotorEnvironment.seed(seed); os: the entropy the operating system
\* hands out when seed is None
env_seed(st, seed, os, cfg) ==
    seed_components(st, seed, SeedSequence(IF seed = None THEN os ELSE seed[1]), cfg)

\* ------------------------------------------------- inputs of the seeding
Envs == {"A", "B"}

SeedInts == 1..NumSeeds

SeedArgs == {None} \cup {Some(n) : n \in SeedInts}

\* entropies the operating system may hand out
OsEntropies == {n \in SeedInts : n > 1}

\* which of the components are RandomComponents; the two environments are
\* configured alike
SeedConfigs ==
    { [ env |-> [i \in 1..NumComponents |-> i \in r],
        eng |-> [i \in 1..Len(random_components) |-> i \in q] ] :
        r \in {{1, 2, 5}, {1, 3}}, q \in {{1, 2, 3, 4, 5}, {1, 3}} }

\* ------------------------------------------------ actions of the seeding
Seed ==
    /\ \E e \in Envs, seed \in SeedArgs, os \in OsEntropies :
         seedSt' = [seedSt EXCEPT !.env[e] = env_seed(@, seed, os, seedSt.cfg)]
    /\ UNCHANGED <<ps, engCall, kind, done, gk, envCall, ready, conv, motor>>

\* what SCMLSystem.reset() does to the seed sequence: self.next_generator()
ResetNextGenerator ==
    /\ \E e \in Envs :
         /\ seedSt.env[e].engine.seed_sequence # None
         /\ seedSt.env[e].engine.seed_sequence[1].n_children_spawned
              < Len(random_components) + MaxGenerators
         /\ seedSt' = [seedSt EXCEPT !.env[e].engine = next_generator(@)]
    /\ UNCHANGED <<ps, engCall, kind, done, gk, envCall, ready, conv, motor>>

InitSeed ==
    /\ seedSt \in {[cfg |-> c, env |-> [e \in Envs |-> NoEnvSeeds]] : c \in SeedConfigs}
    /\ ps = NoSystem
    /\ engCall = NoCall
    /\ kind = "SCML"
    /\ done = TRUE
    /\ gk = 0
    /\ envCall = NoEnvCall
    /\ ready = FALSE
    /\ conv = None
    /\ motor = None

NextSeed == Seed \/ ResetNextGenerator

SpecSeed == InitSeed /\ [][NextSeed]_vars

\* ============================================ FiniteOneQuadrantConverter
\* converters/finite_control_set/finite_one_quadrant_converter.py

MaxCurrent == 2        \* output currents range over -MaxCurrent..MaxCurrent
MaxVoltage == 3        \* supply voltages range over -MaxVoltage..MaxVoltage

\* action_space = gym.spaces.Discrete(2): 0 transistor off, 1 transistor on
ConverterActions == {0, 1}

NoConvCall == [op |-> "none", n |-> 0, t |-> 0, i_out |-> <<>>, u_sup |-> <<>>, ret |-> <<>>]

\* a convert that lets the supply voltage through at zero current as well
convert_positive_only(current_action, t, i_out, u_sup) ==
    << IF i_out[1] > 0 THEN current_action * u_sup[1] ELSE u_sup[1] >>

\* convert(self, t, i_out, u_sup):
\*     return [self._current_action * u_sup[0] if i_out[0] >= 0 else u_sup[0]]
convert(current_action, t, i_out, u_sup) ==
    << IF i_out[1] >= 0 THEN current_action * u_sup[1] ELSE u_sup[1] >>

\* an i_sup that draws the output current whatever the action is
i_sup_always(current_action, i_out) == i_out[1]

\* i_sup(self, i_out): return i_out[0] if self._current_action == 1 else 0
i_sup(current_action, i_out) == IF current_action = 1 THEN i_out[1] ELSE 0

\* ---------------------------------------------- inputs of the converter
Currents == {<<i>> : i \in (0 - MaxCurrent)..MaxCurrent}

Voltages == {<<u>> : u \in (0 - MaxVoltage)..MaxVoltage}

ConvTimes == {0, 1}

\* --------------------------------------------- actions of the converter
\* set_action of the base class: the action becomes the current action
ConvSetAction ==
    /\ \E a \in ConverterActions :
         conv' = [ current_action |-> a,
                   call |-> [NoConvCall EXCEPT !.op = "set_action", !.n = 1 - conv.call.n,
                                               !.ret = <<a>>] ]
    /\ UNCHANGED <<ps, engCall, kind, done, gk, envCall, ready, seedSt, motor>>

ConvConvert ==
    /\ \E t \in ConvTimes, i_out \in Currents, u_sup \in Voltages :
         conv' = [ current_action |-> conv.current_action,
                   call |-> [ op |-> "convert", n |-> 1 - conv.call.n, t |-> t,
                              i_out |-> i_out, u_sup |-> u_sup,
                              ret |-> convert(conv.current_action, t, i_out, u_sup) ] ]
    /\ UNCHANGED <<ps, engCall, kind, done, gk, envCall, ready, seedSt, motor>>

ConvISup ==
    /\ \E i_out \in Currents :
         conv' = [ current_action |-> conv.current_action,
                   call |-> [NoConvCall EXCEPT !.op = "i_sup", !.n = 1 - conv.call.n,
                                               !.i_out = i_out,
                                               !.ret = <<i_sup(conv.current_action, i_out)>>] ]
    /\ UNCHANGED <<ps, engCall, kind, done, gk, envCall, ready, seedSt, motor>>

InitConverter ==
    /\ conv \in {[current_action |-> a, call |-> NoConvCall] : a \in ConverterActions}
    /\ ps = NoSystem
    /\ engCall = NoCall
    /\ kind = "SCML"
    /\ done = TRUE
    /\ gk = 0
    /\ envCall = NoEnvCall
    /\ ready = FALSE
    /\ seedSt = None
    /\ motor = None

NextConverter == ConvSetAction \/ ConvConvert \/ ConvISup

SpecConverter == InitConverter /\ [][NextConverter]_vars

\* ==================================== ExternallyExcitedSynchronousMotor
\* externally_excited_synchronous_motor.py; inductances are counted in units
\* of a common fraction of a millihenry, torques and their derivatives in
\* halves (the factor 1.5 is three halves)

MaxMotorCurrent == 1   \* i_sd, i_sq and i_e range over -MaxMotorCurrent..MaxMotorCurrent

\* positions in the motor's state
I_SD_IDX == 1
I_SQ_IDX == 2
I_E_IDX == 3
EPSILON_IDX == 4

\* torque(self, currents):
\*     1.5 * p * (l_m * currents[I_E_IDX] + (l_d - l_q) * currents[I_SD_IDX])
\*         * currents[I_SQ_IDX]
torque(mp, currents) ==
    3 * mp.p * (mp.l_m * currents[I_E_IDX] + (mp.l_d - mp.l_q) * currents[I_SD_IDX])
        * currents[I_SQ_IDX]

\* the third array electrical_jacobian returns, dT/dx
torque_over_state(mp, state) ==
    << 3 * mp.p * (mp.l_d - mp.l_q) * state[I_SQ_IDX],
       3 * mp.p * (mp.l_e * state[I_E_IDX] + (mp.l_d - mp.l_q) * state[I_SD_IDX]),
       3 * mp.p * mp.l_e * state[I_SQ_IDX],
       0 >>

NoMotorCall == [op |-> "none", state |-> <<>>, ret |-> <<>>]

\* ------------------------------------------------- inputs of the motor
\* motor parameters: pole pairs and inductances, the excitation inductance
\* equal to the mutual inductance or above it (by default 1.74 mH and 1.589 mH)
MotorParameters ==
    { [p |-> p, l_d |-> ld, l_q |-> 1, l_m |-> 2, l_e |-> le] :
        p \in {1, 3}, ld \in {1, 3}, le \in {2, 3} }

\* motor states [i_sd, i_sq, i_e, epsilon]
MotorStates ==
    { <<isd, isq, ie, eps>> :
        isd \in (0 - MaxMotorCurrent)..MaxMotorCurrent,
        isq \in (0 - MaxMotorCurrent)..MaxMotorCurrent,
        ie \in (0 - MaxMotorCurrent)..MaxMotorCurrent, eps \in {0, 1} }

\* -------------------------------------------------- actions of the motor
MotorTorque ==
    /\ \E state \in MotorStates :
         motor' = [motor EXCEPT !.call = [op |-> "torque", state |-> state,
                                          ret |-> <<torque(motor.mp, state)>>]]
    /\ UNCHANGED <<ps, engCall, kind, done, gk, envCall, ready, seedSt, conv>>

MotorElectricalJacobian ==
    /\ \E state \in MotorStates :
         motor' = [motor EXCEPT !.call = [op |-> "electrical_jacobian", state |-> state,
                                          ret |-> torque_over_state(motor.mp, state)]]
    /\ UNCHANGED <<ps, engCall, kind, done, gk, envCall, ready, seedSt, conv>>

InitMotor ==
    /\ motor \in {[mp |-> mp, call |-> NoMotorCall] : mp \in MotorParameters}
    /\ ps = NoSystem
    /\ engCall = NoCall
    /\ kind = "SCML"
    /\ done = TRUE
    /\ gk = 0
    /\ envCall = NoEnvCall
    /\ ready = FALSE
    /\ seedSt = None
    /\ conv = None

NextMotor == MotorTorque \/ MotorElectricalJacobian

SpecMotor == InitMotor /\ [][NextMotor]_vars


\* ======================================================== properties
\* a call of step() is what this transition is
StepCalled == envCall'.n # envCall.n /\ envCall'.op = "step"

\* the call at place i of the last call's log is `name`, made by callback idx
LogIs(i, name, idx) ==
    /\ i \in 1..Len(envCall.log)
    /\ envCall.log[i].ev = name
    /\ envCall.log[i].idx = idx

\* the last call was a step() that returned
StepReturned == envCall.op = "step" /\ envCall.outcome = "returned"

\* C1: whenever the done flag is true, step(action) fails with an error and
\* changes nothing: no callback and no collaborator is called, the physical
\* system is not simulated, and the done flag and the engine stay as they were.
C1_StepWhenDoneFails ==
    [][ (done /\ StepCalled) =>
          /\ envCall'.outcome = "raised"
          /\ envCall'.err = "AssertionError"
          /\ envCall'.log = <<>>
          /\ done' = done
          /\ ps' = ps
          /\ gk' = gk
          /\ engCall' = engCall ]_vars

\* C1 witness: a step() was refused in the done state after the physical
\* system had already been stepped in this episode.
C1_Witness ==
    /\ envCall.op = "step"
    /\ envCall.err = "AssertionError"
    /\ done
    /\ physical_system_k > 0

\* C2 as stated: the done flag is false only if a reset() has completed and no
\* terminating step() or setter has come since; a reset() that aborts part-way
\* does not leave it false.
C2_DoneFalseOnlyWhenReady == ~done => ready

C4_ReferenceEndSetsDone == (StepReturned /\ envCall.ended) => done

\* C5 as stated: the step() that follows a successful reset() is stopped by
\* nothing but a collaborator raising: it passes the assertion and is carried
\* through the physical system's simulate to a returned result.
C5_StepAfterResetReturns ==
    [][ (envCall.op = "reset" /\ envCall.outcome = "returned" /\ StepCalled) =>
          envCall'.err \in {"", "CollaboratorError"} ]_vars

\* C6: in a step() that returns, the calls come in the order on_step_begin
\* callbacks, simulate(action), get_reference(state), check_constraints(state),
\* reward(state, reference, k, action, violation degree), assignment of the done
\* flag, get_reference_observation(state), on_step_end callbacks with the new
\* done flag; and a step() that stops early has made a prefix of these calls.
C6_StepOrder ==
    /\ StepReturned =>
        /\ Len(envCall.log) = 2 * NumCallbacks + 5
        /\ \A i \in 1..NumCallbacks :
             /\ LogIs(i, "on_step_begin", i)
             /\ envCall.log[i].done = FALSE
             /\ LogIs(NumCallbacks + 5 + i, "on_step_end", i)
             /\ envCall.log[NumCallbacks + 5 + i].done = envCall.ret[3]
             /\ envCall.log[NumCallbacks + 5 + i].args[5] = envCall.ret[3]
             /\ envCall.log[NumCallbacks + 5 + i].args[2] = envCall.ret[1][1]
             /\ envCall.log[NumCallbacks + 5 + i].args[4] = envCall.ret[2]
        /\ LogIs(NumCallbacks + 1, "physical_system.simulate", 0)
        /\ envCall.log[NumCallbacks + 1].args = <<envCall.log[1].args[2]>>
        /\ LogIs(NumCallbacks + 2, "reference_generator.get_reference", 0)
        /\ envCall.log[NumCallbacks + 2].args = <<envCall.ret[1][1]>>
        /\ LogIs(NumCallbacks + 3, "constraint_monitor.check_constraints", 0)
        /\ envCall.log[NumCallbacks + 3].args = <<envCall.ret[1][1]>>
        /\ LogIs(NumCallbacks + 4, "reward_function.reward", 0)
        /\ envCall.log[NumCallbacks + 4].args[1] = envCall.ret[1][1]
        /\ envCall.log[NumCallbacks + 4].args[3] = physical_system_k
        /\ envCall.log[NumCallbacks + 4].args[4] = envCall.log[1].args[2]
        /\ envCall.log[NumCallbacks + 4].args[5] = envCall.vd
        /\ envCall.log[NumCallbacks + 4].done = FALSE
        /\ LogIs(NumCallbacks + 5, "reference_generator.get_reference_observation", 0)
        /\ envCall.log[NumCallbacks + 5].done = envCall.ret[3]
        /\ envCall.ret[3] = done
    /\ envCall.op = "step" =>
        \A i \in 1..Len(envCall.log) :
          /\ (envCall.log[i].ev = "on_step_begin") = (i <= NumCallbacks)
          /\ (envCall.log[i].ev = "on_step_end") = (i > NumCallbacks + 5)

\* C6 witness: a step() returned done = true after every one of its calls.
C6_Witness ==
    /\ StepReturned
    /\ done
    /\ Len(envCall.log) = 2 * NumCallbacks + 5
    /\ envCall.log[Len(envCall.log)].ev = "on_step_end"

\* C7 as stated: reset() sets done = false only after the on_reset_end
\* callbacks: every call reset() makes sees the done flag as the on_reset_begin
\* callbacks saw it.
C7_ReadyOnlyAfterResetEnd ==
    envCall.op = "reset" =>
        \A i \in 1..Len(envCall.log) : envCall.log[i].done = envCall.log[1].done

\* C8: construction returns exactly when supply.supply_shape =
\* converter.supply_shape, converter.output_shape = motor.input_shape and
\* motor.torque_shape = load.speed_shape, and fails with the object unbuilt
\* otherwise; no later operation of a built engine fails a shape assertion.
C8_ConstructionIffShapes ==
    /\ engCall.op = "__init__" =>
        /\ (engCall.outcome = "returned") <=>
             /\ engCall.arg.supply = engCall.arg.converter_supply
             /\ engCall.arg.converter_output = engCall.arg.motor_input
             /\ engCall.arg.motor_torque = engCall.arg.load_speed
        /\ ps.built <=> (engCall.outcome = "returned")
        /\ engCall.outcome = "raised" => engCall.err = "AssertionError"
    /\ engCall.op \notin {"__init__", "none"} =>
        /\ ps.built
        /\ engCall.err # "AssertionError"

\* C8 witness: construction failed on the torque and speed shapes alone.
C8_Witness ==
    /\ engCall.op = "__init__"
    /\ engCall.outcome = "raised"
    /\ ~ps.built
    /\ engCall.arg.supply = engCall.arg.converter_supply
    /\ engCall.arg.converter_output = engCall.arg.motor_input
    /\ engCall.arg.motor_torque # engCall.arg.load_speed

\* the raw observation of the last engine call and the declared limits, both
\* in the order load, motor, converter, supply
RawOfCall ==
    engCall.obs["load"] \o engCall.obs["motor"] \o engCall.obs["converter"]
        \o engCall.obs["supply"]

DeclaredLimits ==
    ps.cfg[1].limits["load"] \o ps.cfg[1].limits["motor"] \o ps.cfg[1].limits["converter"]
        \o ps.cfg[1].limits["supply"]

\* C9 as stated: once the limits are known, reset() and simulate(action) of the
\* engine both return the vector raw[i] / limits[i], raw and limits in the order
\* load, motor, converter, supply (unless a component itself raises).
C9_ResetAndSimulateNormalize ==
    (engCall.op \in {"reset", "simulate"} /\ ps.limits # None
        /\ engCall.err # "ComponentError") =>
        /\ engCall.outcome = "returned"
        /\ Len(engCall.ret) = Len(DeclaredLimits)
        /\ \A i \in 1..Len(engCall.ret) :
             engCall.ret[i] = FDiv(Float(RawOfCall[i]), Float(DeclaredLimits[i]))

\* C10 as amended: after a reset() or simulate() that returns, every entry of
\* the stored raw observation equals the returned entry times its declared
\* limit up to the rounding of the division and the multiplication.
C10_RoundTripWithinTolerance ==
    (engCall.op \in {"reset", "simulate"} /\ engCall.outcome = "returned") =>
        /\ Len(engCall.ret) = Len(DeclaredLimits)
        /\ Len(ps.system_observation) = Len(DeclaredLimits)
        /\ \A i \in 1..Len(engCall.ret) :
             /\ ps.system_observation[i] = Float(RawOfCall[i])
             /\ FClose(FMul(engCall.ret[i], Float(DeclaredLimits[i])),
                       ps.system_observation[i])

\* C10 witness: a reset() returned an entry whose round trip is inexact.
C10_Witness ==
    /\ engCall.op = "reset"
    /\ engCall.outcome = "returned"
    /\ \E i \in 1..Len(engCall.ret) :
         FMul(engCall.ret[i], Float(DeclaredLimits[i])) # ps.system_observation[i]

\* C10 as stated: after a reset() or simulate() that returns, every entry of
\* the stored raw observation equals the returned entry times its declared limit.
C10_RoundTripExact ==
    (engCall.op \in {"reset", "simulate"} /\ engCall.outcome = "returned") =>
        \A i \in 1..Len(engCall.ret) :
            FMul(engCall.ret[i], Float(DeclaredLimits[i])) = ps.system_observation[i]

\* what a seed sequence hands on: its entropy and its spawn key
Identity(sq) == IF sq = None THEN None ELSE <<sq[1].entropy, sq[1].spawn_key>>

\* the child entropies an environment has derived, at every level
Derived(st) ==
    [ comps |-> [i \in 1..NumComponents |-> Identity(st.comps[i])],
      engine |-> Identity(st.engine.seed_sequence),
      children |-> [i \in 1..Len(random_components) |-> Identity(st.engine.children[i])] ]

\* C11: two environments configured alike and last seeded with the same
\* integer hold the same derived child entropies for every component and for
\* every component of the engine, whatever either was seeded with or spawned
\* before.
C11_SameSeedSameEntropies ==
    \A a \in Envs, b \in Envs :
        (seedSt.env[a].called /\ seedSt.env[b].called
            /\ seedSt.env[a].arg # None /\ seedSt.env[a].arg = seedSt.env[b].arg) =>
        Derived(seedSt.env[a]) = Derived(seedSt.env[b])

\* C11 witness: both environments were seeded with the same integer, their
\* engines seeded their components, and one engine has since drawn more
\* generators than the other.
C11_Witness ==
    /\ seedSt.env["A"].called /\ seedSt.env["B"].called
    /\ seedSt.env["A"].arg # None
    /\ seedSt.env["A"].arg = seedSt.env["B"].arg
    /\ seedSt.env["A"].engine.children[3] # None
    /\ seedSt.env["A"].engine.seed_sequence[1].n_children_spawned
         > seedSt.env["B"].engine.seed_sequence[1].n_children_spawned

\* every seed sequence the environment has handed out carries entropy n
AllEntropyIs(st, n) ==
    /\ \A i \in 1..NumComponents : st.comps[i] # None => st.comps[i][1].entropy = n
    /\ st.engine.seed_sequence # None => st.engine.seed_sequence[1].entropy = n
    /\ \A i \in 1..Len(random_components) :
         st.engine.children[i] # None => st.engine.children[i][1].entropy = n

\* C12: seed(s) returns a list of one element, the root entropy every derived
\* seed sequence carries, also when s is None; an environment seeded with the
\* entropy another one returned from seed(None) derives the same child entropies.
C12_ReturnsRootEntropy ==
    /\ \A a \in Envs :
         seedSt.env[a].called =>
            /\ Len(seedSt.env[a].ret[1]) = 1
            /\ AllEntropyIs(seedSt.env[a], seedSt.env[a].ret[1][1])
            /\ seedSt.env[a].arg # None => seedSt.env[a].ret[1] = seedSt.env[a].arg
    /\ \A a \in Envs, b \in Envs :
         (seedSt.env[a].called /\ seedSt.env[b].called
             /\ seedSt.env[a].arg = None /\ seedSt.env[b].arg = seedSt.env[a].ret[1]) =>
         Derived(seedSt.env[a]) = Derived(seedSt.env[b])

\* C12 witness: one environment was seeded with None, the other with the
\* entropy the first one returned.
C12_Witness ==
    /\ seedSt.env["A"].called /\ seedSt.env["B"].called
    /\ seedSt.env["A"].arg = None
    /\ seedSt.env["B"].arg = seedSt.env["A"].ret[1]
    /\ seedSt.env["B"].engine.children[1] # None

\* C13: whatever calc_jacobian (None, True, False) and the HAS_JACOBIAN flags
\* of the motor and the load are, construction with compatible shapes
\* completes; the solver is given the Jacobian routine exactly when
\* calc_jacobian is not False and both flags are true, and a warning is issued
\* exactly when calc_jacobian is True and a flag is false.
C13_JacobianSelection ==
    (engCall.op = "__init__"
        /\ engCall.arg.supply = engCall.arg.converter_supply
        /\ engCall.arg.converter_output = engCall.arg.motor_input
        /\ engCall.arg.motor_torque = engCall.arg.load_speed) =>
        /\ engCall.outcome = "returned"
        /\ ps.built
        /\ ps.jac <=> /\ engCall.jarg.calc_jacobian # Some(FALSE)
                      /\ engCall.jarg.motor
                      /\ engCall.jarg.load
        /\ engCall.warned <=> /\ engCall.jarg.calc_jacobian = Some(TRUE)
                              /\ ~(engCall.jarg.motor /\ engCall.jarg.load)

\* C13 witness: a Jacobian was requested, the load provides none, and the
\* engine was built without a Jacobian routine, with a warning.
C13_Witness ==
    /\ engCall.op = "__init__"
    /\ engCall.outcome = "returned"
    /\ engCall.jarg.calc_jacobian = Some(TRUE)
    /\ engCall.jarg.motor
    /\ ~engCall.jarg.load
    /\ engCall.warned
    /\ ~ps.jac

\* C14: convert returns a list of one voltage; with the transistor on it is the
\* supply voltage for every output current; with the transistor off it is 0
\* for every output current >= 0 and the supply voltage for every negative one.
C14_ConvertRule ==
    conv.call.op = "convert" =>
        /\ Len(conv.call.ret) = 1
        /\ conv.current_action = 1 => conv.call.ret[1] = conv.call.u_sup[1]
        /\ (conv.current_action = 0 /\ conv.call.i_out[1] >= 0) => conv.call.ret[1] = 0
        /\ (conv.current_action = 0 /\ conv.call.i_out[1] < 0) =>
              conv.call.ret[1] = conv.call.u_sup[1]

\* C14 witness: the transistor is off, no current flows, the supply voltage is
\* not zero, and the converted voltage is 0.
C14_Witness ==
    /\ conv.call.op = "convert"
    /\ conv.current_action = 0
    /\ conv.call.i_out[1] = 0
    /\ conv.call.u_sup[1] # 0
    /\ conv.call.ret = <<0>>

\* C15: i_sup returns the output current when the current action is on and 0
\* when it is off, and leaves the current action as it was.
C15_SupplyCurrentRule ==
    [][ (conv'.call.n # conv.call.n /\ conv'.call.op = "i_sup") =>
          /\ conv'.call.ret =
                <<IF conv.current_action = 1 THEN conv'.call.i_out[1] ELSE 0>>
          /\ conv'.current_action = conv.current_action ]_vars

\* C15 witness: with the transistor off, a nonzero output current drew no
\* supply current.
C15_Witness ==
    /\ conv.call.op = "i_sup"
    /\ conv.current_action = 0
    /\ conv.call.i_out[1] # 0
    /\ conv.call.ret = <<0>>

\* C16 as stated: once a new reference generator or reward function has been
\* assigned, every step() fails until a reset() has returned.
C16_StepFailsUntilResetCompleted ==
    [][ (envCall.pending /\ StepCalled) => envCall'.err = "AssertionError" ]_vars

\* the times the solver was asked to integrate to in the last simulate, in order
IntegrateTargets ==
    [i \in 1..(Len(engCall.trace) \div 6) |-> engCall.trace[6 * i].t[1]]

\* C17: in one simulate(action) started at time t the solver integrates once
\* per boundary, to the converter's switching times and then to t + tau, in
\* strictly increasing order and starting after t; the cycle counter and the
\* time advance exactly once.
C17_OneCyclePerSimulate ==
    engCall.op = "simulate" =>
        /\ Len(engCall.trace) = 6 * (Len(engCall.arg.sw) + 1)
        /\ \A n \in 1..Len(engCall.trace) :
             (engCall.trace[n].ev = "solver.integrate") = (n % 6 = 0)
        /\ IntegrateTargets = engCall.arg.sw \o <<engCall.arg.t + TauTicks>>
        /\ \A i \in 1..Len(IntegrateTargets) :
             /\ IntegrateTargets[i] > engCall.arg.t
             /\ i > 1 => IntegrateTargets[i] > IntegrateTargets[i - 1]
        /\ IntegrateTargets[Len(IntegrateTargets)] = engCall.arg.t + TauTicks
        /\ ps.solver_t = engCall.arg.t + TauTicks
        /\ ps.k = engCall.arg.k + 1
        /\ ps.t = engCall.arg.t + TauTicks

\* C17 witness: a simulate in its second cycle with a switching time inside
\* the interval, so the solver integrated twice.
C17_Witness ==
    /\ engCall.op = "simulate"
    /\ engCall.arg.k = 1
    /\ Len(engCall.arg.sw) = 1
    /\ Len(IntegrateTargets) = 2
    /\ ps.k = 2

\* the motor segment of an ODE state
MotorSegment(y) ==
    Slice(y, ps.cfg[1].load_ode_size, ps.cfg[1].load_ode_size + ps.cfg[1].motor_ode_size)

\* C18 as stated: at each boundary of a simulate that follows a reset the
\* calls are i_in, i_sup, get_u_sup, convert, set_u_in, integrate, and i_in is
\* given the motor state of that instant: the state at the start of the cycle
\* at the first boundary, the motor segment of the state the solver reached
\* at the previous boundary afterwards.
C18_CurrentFromStateAtBoundary ==
    (engCall.op = "simulate" /\ engCall.arg.motor_state # None) =>
        \A i \in 1..(Len(engCall.trace) \div 6) :
            /\ engCall.trace[6 * i - 5].ev = "motor.i_in"
            /\ engCall.trace[6 * i - 4].ev = "converter.i_sup"
            /\ engCall.trace[6 * i - 3].ev = "supply.get_u_sup"
            /\ engCall.trace[6 * i - 2].ev = "converter.convert"
            /\ engCall.trace[6 * i - 1].ev = "motor.set_u_in"
            /\ engCall.trace[6 * i].ev = "solver.integrate"
            /\ engCall.trace[6 * i - 5].state =
                 IF i = 1 THEN engCall.arg.motor_state
                 ELSE Some(MotorSegment(engCall.trace[6 * (i - 1)].ret[1]))

\* the load segment of an ODE state
LoadSegment(y) == Slice(y, 0, ps.cfg[1].load_ode_size)

\* C19 as stated: reset(), simulate() and the right-hand side all split the
\* ODE state into the load segment [0, load.ode_size) and the motor segment
\* [load.ode_size, load.ode_size + motor.ode_size), which together cover it,
\* and the right-hand side writes the load and the motor derivative into the
\* same segments.
C19_SamePartitionEverywhere ==
    /\ (engCall.op = "reset" /\ engCall.err # "ComponentError") =>
          /\ ps.load_state = Some(LoadSegment(ps.solver_y[1]))
          /\ ps.motor_state = Some(MotorSegment(ps.solver_y[1]))
          /\ LoadSegment(ps.solver_y[1]) \o MotorSegment(ps.solver_y[1]) = ps.solver_y[1]
    /\ (engCall.op = "simulate" /\ engCall.arg.motor_state # None) =>
          /\ ps.load_state = Some(LoadSegment(ps.solver_y[1]))
          /\ ps.motor_state = Some(MotorSegment(ps.solver_y[1]))
    /\ engCall.op = "_system_equation" =>
          /\ engCall.arg.load_state = LoadSegment(engCall.arg.state)
          /\ engCall.arg.motor_state = MotorSegment(engCall.arg.state)
          /\ engCall.ret = engCall.arg.dload \o engCall.arg.dmotor
          /\ ps.system_derivative = engCall.ret

\* C20 as stated: the Jacobian routine returns a square matrix of size
\* load.ode_size + motor.ode_size with the load's Jacobian in the load block,
\* the motor's in the motor block, the motor's derivative with respect to
\* speed in the motor rows of the speed column, the outer product of the
\* load's derivative with respect to torque and the motor's torque derivative
\* in the load rows of the motor columns, and zero elsewhere.
C20_JacobianBlocks ==
    engCall.op = "_system_jacobian" =>
        /\ engCall.outcome = "returned"
        /\ Len(engCall.ret) = ps.cfg[1].load_ode_size + ps.cfg[1].motor_ode_size
        /\ \A r \in 1..Len(engCall.ret) :
             /\ Len(engCall.ret[r]) = Len(engCall.ret)
             /\ \A c \in 1..Len(engCall.ret) :
                  engCall.ret[r][c] =
                    IF r <= ps.cfg[1].load_ode_size
                    THEN IF c <= ps.cfg[1].load_ode_size
                         THEN engCall.arg.load_jac[r][c]
                         ELSE engCall.arg.load_over_torque[r]
                                * engCall.arg.torque_over_el_state[c - ps.cfg[1].load_ode_size]
                    ELSE IF c = 1
                         THEN engCall.arg.el_state_over_omega[r - ps.cfg[1].load_ode_size]
                         ELSE IF c > ps.cfg[1].load_ode_size
                              THEN engCall.arg.motor_jac[r - ps.cfg[1].load_ode_size]
                                                        [c - ps.cfg[1].load_ode_size]
                              ELSE 0

\* the number of entries of the ODE state
OdeSize == ps.cfg[1].load_ode_size + ps.cfg[1].motor_ode_size

\* C21 as stated: the Jacobian routine is overwritten by the matrix field
\* before it can execute, so after construction neither the engine nor the
\* solver holds the routine and nobody invokes it.
C21_RoutineNeverHeld ==
    ps.built =>
        /\ ps.system_jacobian.kind = "ndarray"
        /\ ps.solver_jac # "method"
        /\ engCall.op # "_system_jacobian"

\* C21 amended: after construction the engine's attribute _system_jacobian is
\* the square zero matrix, so the engine cannot reach the routine through
\* self; the solver was handed the routine before the attribute was assigned
\* and holds it exactly when __init__ selected the Jacobian, and only then is
\* the routine invoked.
C21_RoutineHeldBySolverOnly ==
    ps.built =>
        /\ ps.system_jacobian.kind = "ndarray"
        /\ Len(ps.system_jacobian.value) = OdeSize
        /\ \A r \in 1..OdeSize : ps.system_jacobian.value[r] = Zeros(OdeSize)
        /\ ps.solver_jac = IF ps.jac THEN "method" ELSE "none"
        /\ engCall.op = "_system_jacobian" => ps.solver_jac = "method"

\* the solver has invoked the routine of an engine whose attribute is the matrix
C21_Witness ==
    /\ ps.built
    /\ engCall.op = "_system_jacobian"
    /\ ps.system_jacobian.kind = "ndarray"
    /\ ps.solver_jac = "method"

\* how often reset called `name`
TimesCalled(name) ==
    Cardinality({i \in 1..Len(engCall.trace) : engCall.trace[i].ev = name})

\* C22 as stated: a reset in which no component raises, from any state,
\* re-derives the episode generator, then resets load, motor, converter and
\* supply once each, then gives the solver the initial ODE value and the
\* engine's reset time; afterwards the engine's load and motor states are the
\* load and motor segments of the solver's state, the observation is built
\* from those segments, and a reset that returns returns that observation
\* divided by the limits.
C22_ResetSequence ==
    (engCall.op = "reset" /\ engCall.err # "ComponentError") =>
        /\ Len(engCall.trace) = 11
        /\ engCall.trace[2].ev = "next_generator"
        /\ engCall.trace[3].ev = "load.reset"
        /\ engCall.trace[4].ev = "motor.reset"
        /\ engCall.trace[5].ev = "converter.reset"
        /\ engCall.trace[6].ev = "supply.reset"
        /\ \A n \in {"next_generator", "load.reset", "motor.reset", "converter.reset",
                     "supply.reset", "solver.set_initial_value"} : TimesCalled(n) = 1
        /\ engCall.trace[7].ev = "solver.set_initial_value"
        /\ engCall.trace[7].state = Some(ps.initial_ode_value)
        /\ engCall.trace[7].t = Some(ps.t)
        /\ ps.solver_y = Some(ps.initial_ode_value)
        /\ ps.solver_t = ps.t
        /\ ps.load_state = Some(LoadSegment(ps.solver_y[1]))
        /\ ps.motor_state = Some(MotorSegment(ps.solver_y[1]))
        /\ engCall.trace[8].ev = "load.get_observation"
        /\ engCall.trace[8].state = Some(LoadSegment(ps.solver_y[1]))
        /\ engCall.trace[9].ev = "motor.get_observation"
        /\ engCall.trace[9].state = Some(MotorSegment(ps.solver_y[1]))
        /\ ps.system_observation = ArrFloat(RawOfCall)
        /\ engCall.outcome = "returned" =>
              engCall.ret = ArrDiv(ArrFloat(RawOfCall), ArrFloat(DeclaredLimits))

\* a reset that returned, called after a control cycle had moved the solver
\* and the engine's time away from their initial values
C22_Witness ==
    /\ engCall.op = "reset"
    /\ engCall.outcome = "returned"
    /\ engCall.arg.k > 0
    /\ engCall.arg.t > 0
    /\ ps.solver_t = 0
    /\ ps.solver_y = Some(ps.initial_ode_value)

\* the child a seed sequence of entropy n spawns under the spawn key `key`
ChildAt(n, key) == Some([entropy |-> n, spawn_key |-> key, n_children_spawned |-> 0])

\* the spawn keys of the children an environment's components hold
HeldKeys(st) ==
    {st.comps[i][1].spawn_key : i \in {j \in 2..NumComponents : st.comps[j] # None}}
        \cup {st.engine.children[i][1].spawn_key :
                i \in {j \in 1..Len(random_components) : st.engine.children[j] # None}}

\* the components that hold a child
NumHolders(st) ==
    Cardinality({j \in 2..NumComponents : st.comps[j] # None})
        + Cardinality({j \in 1..Len(random_components) : st.engine.children[j] # None})

\* C23: after seed() the i-th component of the environment holds the i-th
\* child of the root (spawn key <<i - 1>>) if it is seedable and none
\* otherwise, the j-th random component of a seedable engine holds the j-th
\* child of the engine's child (spawn key <<0, j - 1>>) if it is seedable and
\* none otherwise, whichever other components are seedable; no two components
\* hold the same child.
C23_PositionalSeeds ==
    \A e \in Envs :
        seedSt.env[e].called =>
            /\ \A i \in 2..NumComponents :
                 seedSt.env[e].comps[i] =
                    IF seedSt.cfg.env[i]
                    THEN ChildAt(seedSt.env[e].ret[1][1], <<i - 1>>)
                    ELSE None
            /\ seedSt.cfg.env[1] =>
                 /\ Identity(seedSt.env[e].engine.seed_sequence)
                      = <<seedSt.env[e].ret[1][1], <<0>> >>
                 /\ \A j \in 1..Len(random_components) :
                      seedSt.env[e].engine.children[j] =
                         IF seedSt.cfg.eng[j]
                         THEN ChildAt(seedSt.env[e].ret[1][1], <<0, j - 1>>)
                         ELSE None
            /\ Cardinality(HeldKeys(seedSt.env[e])) = NumHolders(seedSt.env[e])

\* C23 witness: an environment whose third component is seedable while its
\* second is not, and whose engine has a non-seedable converter, was seeded;
\* the third component and the motor hold the third child of their parent.
C23_Witness ==
    /\ seedSt.env["A"].called
    /\ ~seedSt.cfg.env[2] /\ seedSt.cfg.env[3]
    /\ ~seedSt.cfg.eng[2] /\ seedSt.cfg.eng[3]
    /\ seedSt.env["A"].comps[2] = None
    /\ seedSt.env["A"].comps[3][1].spawn_key = <<2>>
    /\ seedSt.env["A"].engine.children[3][1].spawn_key = <<0, 2>>

\* the motor state with one more unit in component k
StepIn(state, k) == [state EXCEPT ![k] = @ + 1]

\* C24 as stated: the torque-over-state vector electrical_jacobian returns is,
\* in each of (i_sd, i_sq, i_e, epsilon), the derivative of torque(state),
\* which for a torque linear in each current is the unit-step difference
\* torque(state + e_k) - torque(state).
C24_TorqueJacobianMatchesTorque ==
    motor.call.op = "electrical_jacobian" =>
        \A k \in {I_SD_IDX, I_SQ_IDX, I_E_IDX, EPSILON_IDX} :
            motor.call.ret[k] =
                torque(motor.mp, StepIn(motor.call.state, k)) - torque(motor.mp, motor.call.state)

\* C25 as stated: every reset() and simulate() in which no component raises
\* returns the raw observation divided by the concatenated limits of the
\* components, whether or not `limits` was read before the call, and every
\* read of `limits` returns those limits.
C25_LimitsFixedOnceComputed ==
    /\ (engCall.op \in {"reset", "simulate"} /\ engCall.err # "ComponentError") =>
          /\ engCall.outcome = "returned"
          /\ engCall.ret = ArrDiv(ArrFloat(RawOfCall), ArrFloat(DeclaredLimits))
    /\ engCall.op = "limits" =>
          /\ engCall.ret = ArrFloat(DeclaredLimits)
          /\ ps.limits = Some(ArrFloat(DeclaredLimits))

\* C26: a construction that fails on a shape mismatch has set neither the
\* solver's system equation nor the load's rotor inertia, whichever of the
\* three checks fails; a construction that succeeds has set both.
C26_FailedConstructionTouchesNothing ==
    engCall.op = "__init__" =>
        /\ engCall.outcome = "raised" =>
              /\ ~ps.built
              /\ ~ps.components.equation_set
              /\ ~ps.components.j_rotor_set
        /\ engCall.outcome = "returned" =>
              /\ ps.components.equation_set
              /\ ps.components.j_rotor_set

\* C26 witness: a construction failed on the last of the three checks, the
\* torque and speed shapes, the first two having passed
C26_Witness ==
    /\ engCall.op = "__init__"
    /\ engCall.outcome = "raised"
    /\ engCall.arg.supply = engCall.arg.converter_supply
    /\ engCall.arg.converter_output = engCall.arg.motor_input
    /\ engCall.arg.motor_torque # engCall.arg.load_speed
    /\ ~ps.components.equation_set

\* the places of the on_step_end calls in the log of the last call
StepEndPlaces == {i \in 1..Len(envCall.log) : envCall.log[i].ev = "on_step_end"}

\* C27: in every step() that returns, the done value returned, the done value
\* every on_step_end callback was given and the stored done flag are equal,
\* every callback was given one, and the info returned is the empty mapping.
C27_DoneValuesAgree ==
    StepReturned =>
        /\ Len(envCall.ret) = 4
        /\ envCall.ret[3] = done
        /\ Cardinality(StepEndPlaces) = NumCallbacks
        /\ \A i \in StepEndPlaces :
             /\ envCall.log[i].args[5] = done
             /\ envCall.log[i].done = done
        /\ envCall.ret[4] = <<>>

\* C27 witness: a step() returned done = true and its callbacks were told so
C27_Witness ==
    /\ StepReturned
    /\ done
    /\ envCall.ret[3]
    /\ StepEndPlaces # {}
    /\ \A i \in StepEndPlaces : envCall.log[i].args[5]

\* C28 as stated: the derivative vector an evaluation of the right-hand side
\* returned still holds, after the next evaluation, what it held when it was
\* returned.
C28_ReturnedDerivativeKept ==
    (engCall.op = "_system_equation" /\ engCall.earlier # None) =>
        holds_now(engCall.earlier[1], ps) = engCall.earlier[1].value

====
